---- MODULE Spec2Model ----
(***************************************************************************)
(* A model of scripts/message_dump.py: the capture session                 *)
(* (recv_messages, a generator) driven by its consumer (dump), together    *)
(* with the StreamParser the consumer feeds.                               *)
(*                                                                         *)
(* The generator and its consumer run strictly alternately, so one program *)
(* counter pc covers both:                                                 *)
(*   start       dump entered, parser built, first next() pending          *)
(*   auth        connection open, jwt truthy, AUTH line about to be sent    *)
(*   loop        at the test of "while count < limit"                      *)
(*   render      generator suspended at yield, consumer at lines 82-87     *)
(*   feed        consumer at line 88                                       *)
(*   report      consumer at lines 89-90                                   *)
(*   after_loop  generator at "if count >= limit"                          *)
(*   exit_with   generator leaving the with block                          *)
(*   flush       generator exhausted, consumer at line 95                  *)
(*   flush_report consumer at lines 96-102                                 *)
(*   except      consumer in the handler of line 91                        *)
(*   done        dump has returned                                         *)
(*                                                                         *)
(* The environment is the peer and the operating system: what a recv       *)
(* returns, whether a send or the connect succeeds, and whether the body   *)
(* of the consumer's loop raises.  Output written after the loop (lines    *)
(* 95-101) is taken to succeed, and the credential to be ASCII, so that    *)
(* the encode of line 35 cannot raise.                                     *)
(*                                                                         *)
(* Specifications: Spec is the session; LiveSpec is the session with weak  *)
(* fairness of the program's own steps; ParserSpec drives the parser alone *)
(* (pc is then "p_feed" or "p_flushed").                                   *)
(***************************************************************************)
EXTENDS Integers, Sequences, FiniteSets, TLC

\* ---------------------------------------------------------------- bounds
MaxLimit == 5
MaxTimeouts == 2
MaxStream == 4
MaxFlushes == 2

\* ------------------------------------------------------- StreamParser
\* aetheric.parser is imported by the script but is not part of the
\* sources; it is modelled from the specification's Frame Reassembler.
NL == 10
TAG == 170

EmptyParser == [mode |-> "idle", buf |-> <<>>, header |-> 0, declared |-> 0, payload |-> <<>>]

\* index of the first line terminator of s, 0 when there is none
RECURSIVE FirstNL(_, _)
FirstNL(s, i) ==
    IF i > Len(s) THEN 0
    ELSE IF s[i] = NL THEN i
    ELSE FirstNL(s, i + 1)

BinaryMessage(st, trunc) ==
    [header |-> st.header, declared_len |-> st.declared,
     received_len |-> Len(st.payload), truncated |-> trunc, payload |-> st.payload]

RECURSIVE Scan(_, _, _)
Scan(st, ascii, binary) ==
    IF st.mode = "binary" THEN
        IF Len(st.payload) = st.declared THEN
            Scan([st EXCEPT !.mode = "idle", !.header = 0, !.declared = 0, !.payload = <<>>],
                 ascii, Append(binary, BinaryMessage(st, FALSE)))
        ELSE IF st.buf = <<>> THEN
            [st |-> st, ascii |-> ascii, binary |-> binary]
        ELSE
            Scan([st EXCEPT !.payload = Append(@, Head(st.buf)), !.buf = Tail(@)],
                 ascii, binary)
    ELSE
        IF st.buf = <<>> THEN
            [st |-> st, ascii |-> ascii, binary |-> binary]
        ELSE IF Head(st.buf) = TAG THEN
            IF Len(st.buf) >= 2 THEN
                Scan([st EXCEPT !.mode = "binary", !.header = st.buf[1],
                                !.declared = st.buf[2], !.payload = <<>>,
                                !.buf = Tail(Tail(@))],
                     ascii, binary)
            ELSE
                [st |-> st, ascii |-> ascii, binary |-> binary]
        ELSE IF FirstNL(st.buf, 1) # 0 THEN
            LET i == FirstNL(st.buf, 1) IN
            Scan([st EXCEPT !.buf = SubSeq(@, i + 1, Len(@))],
                 Append(ascii, [payload |-> SubSeq(st.buf, 1, i - 1)]), binary)
        ELSE
            [st |-> st, ascii |-> ascii, binary |-> binary]

\* feed that scans the new chunk alone, losing what was retained
ParserFeed_NoCarry(st, chunk) == Scan([st EXCEPT !.buf = chunk], <<>>, <<>>)

\* StreamParser.feed(chunk)
ParserFeed(st, chunk) == Scan([st EXCEPT !.buf = @ \o chunk], <<>>, <<>>)

\* flush that reports the frame being collected as complete
ParserFlush_MarksComplete(st) ==
    [st |-> EmptyParser,
     ascii |-> <<>>,
     binary |-> IF st.mode = "binary" THEN <<BinaryMessage(st, FALSE)>> ELSE <<>>]

\* flush that emits the unterminated bytes held in idle mode as a line
ParserFlush_EmitsTail(st) ==
    [st |-> EmptyParser,
     ascii |-> IF st.mode = "idle" /\ st.buf # <<>> THEN <<[payload |-> st.buf]>> ELSE <<>>,
     binary |-> IF st.mode = "binary" THEN <<BinaryMessage(st, TRUE)>> ELSE <<>>]

\* flush that does not reset the parser
ParserFlush_KeepsState(st) ==
    [st |-> st,
     ascii |-> <<>>,
     binary |-> IF st.mode = "binary" THEN <<BinaryMessage(st, TRUE)>> ELSE <<>>]

\* StreamParser.flush()
ParserFlush(st) ==
    [st |-> EmptyParser,
     ascii |-> <<>>,
     binary |-> IF st.mode = "binary" THEN <<BinaryMessage(st, TRUE)>> ELSE <<>>]

\* ------------------------------------------------------------- inputs
\* the configured limit (--limit is any int, line 110)
Limits == (0 - 1) .. MaxLimit

\* the non-empty values a recv may return
Chunks == {<<97, NL>>, <<TAG, 2, 98>>, <<99>>}

VARIABLES
    limit,      \* recv_messages' limit
    jwt,        \* whether jwt is truthy
    pc,         \* position of generator and consumer (see above)
    sock,       \* "none", "open" or "closed"
    count,      \* recv_messages' count
    cur,        \* the (index, data) pair last yielded, as <<idx, data>>
    recvs,      \* number of sock.recv calls issued
    timeouts,   \* number of those that raised socket.timeout
    recvd,      \* the non-empty chunks recv has returned, in order
    yielded,    \* the (index, data) pairs yielded, in order
    sends,      \* the sendall calls issued, in order, each with its outcome
    endedBy,    \* why the while loop was left: "none", "limit", "eof"
    err,        \* the exception that reached dump: "none", "connect", "auth", "recv", "consumer"
    parser,     \* StreamParser state
    msgs,       \* result of the last feed / flush
    fed,        \* chunks passed to parser.feed, in order
    flushes,    \* number of parser.flush calls
    out,        \* what the reporter has printed, in order
    ret         \* <<>> until dump returns, then <<status>>

vars == <<limit, jwt, pc, sock, count, cur, recvs, timeouts, recvd, yielded,
          sends, endedBy, err, parser, msgs, fed, flushes, out, ret>>

NoMsgs == [ascii |-> <<>>, binary |-> <<>>]

Event(kind, idx, data, m) ==
    [kind |-> kind, idx |-> idx, data |-> data, ascii |-> m.ascii, binary |-> m.binary]

Init ==
    /\ limit \in Limits
    /\ jwt \in BOOLEAN
    /\ pc = "start"
    /\ sock = "none"
    /\ count = 0
    /\ cur = <<>>
    /\ recvs = 0
    /\ timeouts = 0
    /\ recvd = <<>>
    /\ yielded = <<>>
    /\ sends = <<>>
    /\ endedBy = "none"
    /\ err = "none"
    /\ parser = EmptyParser
    /\ msgs = NoMsgs
    /\ fed = <<>>
    /\ flushes = 0
    /\ out = <<>>
    /\ ret = <<>>

\* ------------------------------------------------------- recv_messages
\* the loop test with its bound off by one
LoopTest_OffByOne == count <= limit

\* line 38: while count < limit
LoopTest == count < limit

\* the drain test requiring that something was read
DrainTest_AfterData == count >= limit /\ count > 0

\* line 50: if count >= limit
DrainTest == count >= limit

\* the AUTH line sent whether or not a credential was given
Connect_AlwaysAuth ==
    /\ pc = "start"
    /\ sock' = "open"
    /\ count' = 0
    /\ pc' = "auth"
    /\ UNCHANGED <<limit, jwt, cur, recvs, timeouts, recvd, yielded, sends,
                   endedBy, err, parser, msgs, fed, flushes, out, ret>>

\* line 31-32, 37: create_connection succeeds; count = 0
Connect ==
    /\ pc = "start"
    /\ sock' = "open"
    /\ count' = 0
    /\ pc' = IF jwt THEN "auth" ELSE "loop"
    /\ UNCHANGED <<limit, jwt, cur, recvs, timeouts, recvd, yielded, sends,
                   endedBy, err, parser, msgs, fed, flushes, out, ret>>

\* line 31: create_connection raises; the exception reaches dump's handler
ConnectFail ==
    /\ pc = "start"
    /\ err' = "connect"
    /\ pc' = "except"
    /\ UNCHANGED <<limit, jwt, sock, count, cur, recvs, timeouts, recvd, yielded,
                   sends, endedBy, parser, msgs, fed, flushes, out, ret>>

\* line 34-35: the AUTH line is sent
Auth ==
    /\ pc = "auth"
    /\ sends' = Append(sends, [cmd |-> "auth", ok |-> TRUE])
    /\ pc' = "loop"
    /\ UNCHANGED <<limit, jwt, sock, count, cur, recvs, timeouts, recvd, yielded,
                   endedBy, err, parser, msgs, fed, flushes, out, ret>>

\* line 35: sendall raises; the with block closes the socket on the way out
AuthFail ==
    /\ pc = "auth"
    /\ sends' = Append(sends, [cmd |-> "auth", ok |-> FALSE])
    /\ sock' = "closed"
    /\ err' = "auth"
    /\ pc' = "except"
    /\ UNCHANGED <<limit, jwt, count, cur, recvs, timeouts, recvd, yielded,
                   endedBy, parser, msgs, fed, flushes, out, ret>>

\* the drain command sent as soon as the limit-th read is counted, before
\* the chunk is yielded
RecvData_DrainsEarly(c) ==
    /\ pc = "loop"
    /\ LoopTest
    /\ recvs' = recvs + 1
    /\ recvd' = Append(recvd, c)
    /\ count' = count + 1
    /\ cur' = <<count + 1, c>>
    /\ yielded' = Append(yielded, <<count + 1, c>>)
    /\ sends' = IF count + 1 >= limit
                THEN Append(sends, [cmd |-> "drain", ok |-> TRUE])
                ELSE sends
    /\ pc' = "render"
    /\ UNCHANGED <<limit, jwt, sock, timeouts, endedBy, err, parser,
                   msgs, fed, flushes, out, ret>>

\* line 38, 40, 44, 47-48: recv returns data; count it and yield
RecvData(c) ==
    /\ pc = "loop"
    /\ LoopTest
    /\ recvs' = recvs + 1
    /\ recvd' = Append(recvd, c)
    /\ count' = count + 1
    /\ cur' = <<count + 1, c>>
    /\ yielded' = Append(yielded, <<count + 1, c>>)
    /\ pc' = "render"
    /\ UNCHANGED <<limit, jwt, sock, timeouts, sends, endedBy, err, parser,
                   msgs, fed, flushes, out, ret>>

\* socket.timeout not caught: it reaches dump's handler
RecvTimeout_Raises ==
    /\ pc = "loop"
    /\ LoopTest
    /\ timeouts < MaxTimeouts
    /\ recvs' = recvs + 1
    /\ timeouts' = timeouts + 1
    /\ sock' = "closed"
    /\ err' = "timeout"
    /\ pc' = "except"
    /\ UNCHANGED <<limit, jwt, count, cur, recvd, yielded, sends, endedBy,
                   parser, msgs, fed, flushes, out, ret>>

\* a timeout counted as a message
RecvTimeout_Counts ==
    /\ pc = "loop"
    /\ LoopTest
    /\ timeouts < MaxTimeouts
    /\ recvs' = recvs + 1
    /\ timeouts' = timeouts + 1
    /\ count' = count + 1
    /\ pc' = "loop"
    /\ UNCHANGED <<limit, jwt, sock, cur, recvd, yielded, sends, endedBy,
                   err, parser, msgs, fed, flushes, out, ret>>

\* line 38, 40-42: recv raises socket.timeout; continue
RecvTimeout ==
    /\ pc = "loop"
    /\ LoopTest
    /\ timeouts < MaxTimeouts
    /\ recvs' = recvs + 1
    /\ timeouts' = timeouts + 1
    /\ pc' = "loop"
    /\ UNCHANGED <<limit, jwt, sock, count, cur, recvd, yielded, sends, endedBy,
                   err, parser, msgs, fed, flushes, out, ret>>

\* the zero-byte read counted before the break
RecvEOF_Counts ==
    /\ pc = "loop"
    /\ LoopTest
    /\ recvs' = recvs + 1
    /\ count' = count + 1
    /\ endedBy' = "eof"
    /\ pc' = "after_loop"
    /\ UNCHANGED <<limit, jwt, sock, cur, timeouts, recvd, yielded, sends,
                   err, parser, msgs, fed, flushes, out, ret>>

\* line 38, 40, 44-45: recv returns b""; break
RecvEOF ==
    /\ pc = "loop"
    /\ LoopTest
    /\ recvs' = recvs + 1
    /\ endedBy' = "eof"
    /\ pc' = "after_loop"
    /\ UNCHANGED <<limit, jwt, sock, count, cur, timeouts, recvd, yielded, sends,
                   err, parser, msgs, fed, flushes, out, ret>>

\* line 40: recv raises something other than socket.timeout; the with block
\* closes the socket and the exception reaches dump's handler
RecvError ==
    /\ pc = "loop"
    /\ LoopTest
    /\ recvs' = recvs + 1
    /\ sock' = "closed"
    /\ err' = "recv"
    /\ pc' = "except"
    /\ UNCHANGED <<limit, jwt, count, cur, timeouts, recvd, yielded, sends,
                   endedBy, parser, msgs, fed, flushes, out, ret>>

\* line 38: the while test fails
LoopDone ==
    /\ pc = "loop"
    /\ ~LoopTest
    /\ endedBy' = "limit"
    /\ pc' = "after_loop"
    /\ UNCHANGED <<limit, jwt, sock, count, cur, recvs, timeouts, recvd, yielded,
                   sends, err, parser, msgs, fed, flushes, out, ret>>

\* line 50-52: the drain command is sent
DrainOk ==
    /\ pc = "after_loop"
    /\ DrainTest
    /\ sends' = Append(sends, [cmd |-> "drain", ok |-> TRUE])
    /\ pc' = "exit_with"
    /\ UNCHANGED <<limit, jwt, sock, count, cur, recvs, timeouts, recvd, yielded,
                   endedBy, err, parser, msgs, fed, flushes, out, ret>>

\* the failure of the drain send left to propagate
DrainFail_Raises ==
    /\ pc = "after_loop"
    /\ DrainTest
    /\ sends' = Append(sends, [cmd |-> "drain", ok |-> FALSE])
    /\ sock' = "closed"
    /\ err' = "drain"
    /\ pc' = "except"
    /\ UNCHANGED <<limit, jwt, count, cur, recvs, timeouts, recvd, yielded,
                   endedBy, parser, msgs, fed, flushes, out, ret>>

\* the failure of the drain send printed
DrainFail_Logs ==
    /\ pc = "after_loop"
    /\ DrainTest
    /\ sends' = Append(sends, [cmd |-> "drain", ok |-> FALSE])
    /\ out' = Append(out, Event("drain_failed", 0, <<>>, NoMsgs))
    /\ pc' = "exit_with"
    /\ UNCHANGED <<limit, jwt, sock, count, cur, recvs, timeouts, recvd, yielded,
                   endedBy, err, parser, msgs, fed, flushes, ret>>

\* line 50-55: sendall raises; the exception is swallowed
DrainFail ==
    /\ pc = "after_loop"
    /\ DrainTest
    /\ sends' = Append(sends, [cmd |-> "drain", ok |-> FALSE])
    /\ pc' = "exit_with"
    /\ UNCHANGED <<limit, jwt, sock, count, cur, recvs, timeouts, recvd, yielded,
                   endedBy, err, parser, msgs, fed, flushes, out, ret>>

\* the drain command sent without the test of line 50
NoDrain_Sends ==
    /\ pc = "after_loop"
    /\ ~DrainTest
    /\ sends' = Append(sends, [cmd |-> "drain", ok |-> TRUE])
    /\ pc' = "exit_with"
    /\ UNCHANGED <<limit, jwt, sock, count, cur, recvs, timeouts, recvd, yielded,
                   endedBy, err, parser, msgs, fed, flushes, out, ret>>

\* line 50: count < limit, nothing is sent
NoDrain ==
    /\ pc = "after_loop"
    /\ ~DrainTest
    /\ pc' = "exit_with"
    /\ UNCHANGED <<limit, jwt, sock, count, cur, recvs, timeouts, recvd, yielded,
                   sends, endedBy, err, parser, msgs, fed, flushes, out, ret>>

\* line 31: the with block is left normally; the generator is exhausted and
\* the consumer's for loop ends
Release ==
    /\ pc = "exit_with"
    /\ sock' = "closed"
    /\ pc' = "flush"
    /\ UNCHANGED <<limit, jwt, count, cur, recvs, timeouts, recvd, yielded, sends,
                   endedBy, err, parser, msgs, fed, flushes, out, ret>>

\* ---------------------------------------------------------------- dump
\* line 82-87: the raw chunk is printed
Render ==
    /\ pc = "render"
    /\ out' = Append(out, Event("chunk", cur[1], cur[2], NoMsgs))
    /\ pc' = "feed"
    /\ UNCHANGED <<limit, jwt, sock, count, cur, recvs, timeouts, recvd, yielded,
                   sends, endedBy, err, parser, msgs, fed, flushes, ret>>

\* the chunk fed twice
Feed_Twice ==
    /\ pc = "feed"
    /\ LET r == ParserFeed(ParserFeed(parser, cur[2]).st, cur[2]) IN
        /\ parser' = r.st
        /\ msgs' = [ascii |-> r.ascii, binary |-> r.binary]
    /\ fed' = fed \o <<cur[2], cur[2]>>
    /\ pc' = "report"
    /\ UNCHANGED <<limit, jwt, sock, count, cur, recvs, timeouts, recvd, yielded,
                   sends, endedBy, err, flushes, out, ret>>

\* line 88: parser.feed(data)
Feed ==
    /\ pc = "feed"
    /\ LET r == ParserFeed(parser, cur[2]) IN
        /\ parser' = r.st
        /\ msgs' = [ascii |-> r.ascii, binary |-> r.binary]
    /\ fed' = Append(fed, cur[2])
    /\ pc' = "report"
    /\ UNCHANGED <<limit, jwt, sock, count, cur, recvs, timeouts, recvd, yielded,
                   sends, endedBy, err, flushes, out, ret>>

\* line 89-90 (58-75): the messages of this feed are printed, if any; the
\* consumer asks the generator for the next pair
Report ==
    /\ pc = "report"
    /\ out' = IF msgs = NoMsgs THEN out
              ELSE Append(out, Event("messages", cur[1], <<>>, msgs))
    /\ pc' = "loop"
    /\ UNCHANGED <<limit, jwt, sock, count, cur, recvs, timeouts, recvd, yielded,
                   sends, endedBy, err, parser, msgs, fed, flushes, ret>>

\* the suspended generator never finalised: the socket stays open
ConsumerRaise_Leaks ==
    /\ \/ pc = "render"
       \/ pc = "report" /\ msgs # NoMsgs
    /\ err' = "consumer"
    /\ pc' = "except"
    /\ UNCHANGED <<limit, jwt, sock, count, cur, recvs, timeouts, recvd, yielded,
                   sends, endedBy, parser, msgs, fed, flushes, out, ret>>

\* line 82-90: the body of the for loop raises while printing (the chunk, or
\* the messages when there are some).  The for loop drops the suspended
\* generator, whose finalisation raises GeneratorExit at the yield of line 48
\* and so leaves the with block: the socket is closed before the handler runs
\* (CPython finalises the generator when the unwinding drops its last
\* reference).
ConsumerRaise ==
    /\ \/ pc = "render"
       \/ pc = "report" /\ msgs # NoMsgs
    /\ sock' = "closed"
    /\ err' = "consumer"
    /\ pc' = "except"
    /\ UNCHANGED <<limit, jwt, count, cur, recvs, timeouts, recvd, yielded, sends,
                   endedBy, parser, msgs, fed, flushes, out, ret>>

\* the handler flushing the parser and printing the result before returning
Except_Flushes ==
    /\ pc = "except"
    /\ LET r == ParserFlush(parser)
           m == [ascii |-> r.ascii, binary |-> r.binary]
       IN /\ parser' = r.st
          /\ msgs' = m
          /\ out' = (IF m = NoMsgs THEN out
                     ELSE Append(out, Event("flush", 0, <<>>, m)))
                    \o <<Event("failed", 0, <<>>, NoMsgs)>>
    /\ flushes' = flushes + 1
    /\ ret' = <<1>>
    /\ pc' = "done"
    /\ UNCHANGED <<limit, jwt, sock, count, cur, recvs, timeouts, recvd, yielded,
                   sends, endedBy, err, fed>>

\* line 91-93
Except ==
    /\ pc = "except"
    /\ out' = Append(out, Event("failed", 0, <<>>, NoMsgs))
    /\ ret' = <<1>>
    /\ pc' = "done"
    /\ UNCHANGED <<limit, jwt, sock, count, cur, recvs, timeouts, recvd, yielded,
                   sends, endedBy, err, parser, msgs, fed, flushes>>

\* line 95: parser.flush()
Flush ==
    /\ pc = "flush"
    /\ LET r == ParserFlush(parser) IN
        /\ parser' = r.st
        /\ msgs' = [ascii |-> r.ascii, binary |-> r.binary]
    /\ flushes' = flushes + 1
    /\ pc' = "flush_report"
    /\ UNCHANGED <<limit, jwt, sock, count, cur, recvs, timeouts, recvd, yielded,
                   sends, endedBy, err, fed, out, ret>>

\* the flush result printed only when both lists are non-empty
FlushReport_And ==
    /\ pc = "flush_report"
    /\ out' = (IF msgs.ascii = <<>> \/ msgs.binary = <<>> THEN out
               ELSE Append(out, Event("flush", 0, <<>>, msgs)))
              \o <<Event("completed", 0, <<>>, NoMsgs)>>
    /\ ret' = <<0>>
    /\ pc' = "done"
    /\ UNCHANGED <<limit, jwt, sock, count, cur, recvs, timeouts, recvd, yielded,
                   sends, endedBy, err, parser, msgs, fed, flushes>>

\* line 96-102
FlushReport ==
    /\ pc = "flush_report"
    /\ out' = (IF msgs = NoMsgs THEN out
               ELSE Append(out, Event("flush", 0, <<>>, msgs)))
              \o <<Event("completed", 0, <<>>, NoMsgs)>>
    /\ ret' = <<0>>
    /\ pc' = "done"
    /\ UNCHANGED <<limit, jwt, sock, count, cur, recvs, timeouts, recvd, yielded,
                   sends, endedBy, err, parser, msgs, fed, flushes>>

Next ==
    \/ Connect
    \/ ConnectFail
    \/ Auth
    \/ AuthFail
    \/ \E c \in Chunks : RecvData(c)
    \/ RecvTimeout
    \/ RecvEOF
    \/ RecvError
    \/ LoopDone
    \/ DrainOk
    \/ DrainFail
    \/ NoDrain
    \/ Release
    \/ Render
    \/ Feed
    \/ Report
    \/ ConsumerRaise
    \/ Except
    \/ Flush
    \/ FlushReport

Spec == Init /\ [][Next]_vars

\* ------------------------------------------------------------ helpers
Drains == SelectSeq(sends, LAMBDA s : s.cmd = "drain")

DrainAttempts == Len(Drains)

DrainFailed == \E i \in 1..Len(sends) : sends[i].cmd = "drain" /\ ~sends[i].ok

Finished == pc \in {"exit_with", "flush", "flush_report", "done"}

\* --------------------------------------------------------------- C1
\* the counting of the receive loop, for a limit of at least 1
C1_Counting ==
    limit >= 1 =>
        /\ count = Len(recvd)
        /\ Len(yielded) = count
        /\ \A i \in 1..Len(yielded) : yielded[i] = <<i, recvd[i]>>
        /\ count <= limit
        /\ recvs >= count

\* C1: with limit >= 1, whatever the peer does, every read that returns data
\* is counted once (count is the number of chunks received), the pairs
\* yielded carry the indices 1, 2, ..., k with the chunks in the order
\* received, count never exceeds limit, and once count equals limit no
\* further recv is issued.
C1_OneTickPerRead ==
    /\ [](C1_Counting)
    /\ [][limit >= 1 =>
            /\ (recvd' # recvd => count' = count + 1 /\ recvs' = recvs + 1)
            /\ (count = limit => recvs' = recvs)]_vars

\* limit 3, the peer offered data three times (and timeouts in between), the
\* loop has been left with exactly three counted reads
C1_Witness ==
    /\ limit = 3
    /\ count = 3
    /\ timeouts > 0
    /\ endedBy = "limit"
    /\ pc = "done"

\* --------------------------------------------------------------- C2
\* C2: sendall(status_cmd) is called at most once, only after the loop was
\* left because count reached limit, and in that case exactly once before
\* the generator finishes; when the loop was left on a zero-byte read the
\* drain command is never sent and dump still returns 0.
C2_DrainOnlyOnLimit ==
    /\ DrainAttempts <= 1
    /\ (DrainAttempts = 1 => endedBy = "limit" /\ count >= limit)
    /\ (Finished /\ endedBy = "limit" => DrainAttempts = 1)
    /\ (endedBy = "eof" => DrainAttempts = 0 /\ count < limit)
    /\ (pc = "done" /\ endedBy = "eof" => ret = <<0>> /\ err = "none")

\* the peer closed after two reads, before the limit of 3
C2_Witness ==
    /\ pc = "done"
    /\ endedBy = "eof"
    /\ limit = 5
    /\ count = 2
    /\ recvs = 3
    /\ ret = <<0>>

\* --------------------------------------------------------------- C3
\* C3: a recv that times out changes nothing but the number of recv calls:
\* count, the chunks received and yielded, what was fed to the parser, the
\* parser, the output, the sends, the socket and the outcome stay as they
\* were, and the loop is back at its test.  The state after a timeout being
\* the state before it, timeouts inserted anywhere change neither the pairs
\* delivered nor the result.
C3_TimeoutIsNoOp ==
    [][timeouts' # timeouts =>
          /\ pc = "loop" /\ pc' = "loop"
          /\ recvs' = recvs + 1
          /\ UNCHANGED <<limit, jwt, sock, count, cur, recvd, yielded, sends,
                         endedBy, err, parser, msgs, fed, flushes, out, ret>>]_vars

\* a session that saw timeouts, delivered two chunks and completed
C3_Witness ==
    /\ timeouts = MaxTimeouts
    /\ Len(yielded) >= 2
    /\ pc = "done"
    /\ ret = <<0>>

\* --------------------------------------------------------------- C4
\* the step on which recv returns zero bytes
C4_EOFStep ==
    endedBy # "eof" /\ endedBy' = "eof" =>
        /\ pc' = "after_loop"
        /\ recvs' = recvs + 1
        /\ UNCHANGED <<count, cur, recvd, yielded, sends, sock, err, parser,
                       msgs, fed, flushes, out, ret>>

\* C4: a recv that returns zero bytes ends the loop at once, whatever count
\* is: count is not incremented, nothing is yielded, printed or fed, no
\* further recv is issued, and dump returns 0.
C4_EOFEndsReceive ==
    /\ [][C4_EOFStep]_vars
    /\ [][endedBy = "eof" =>
            /\ recvs' = recvs
            /\ count' = count
            /\ yielded' = yielded
            /\ fed' = fed
            /\ err' = "none"]_vars
    /\ [](pc = "done" /\ endedBy = "eof" =>
            /\ ret = <<0>>
            /\ fed = recvd
            /\ \A i \in 1..Len(recvd) : recvd[i] # <<>>
            /\ \A i \in 1..Len(out) : out[i].kind # "failed")

\* the peer closed after one chunk, and the peer closed at once
C4_Witness ==
    /\ pc = "done"
    /\ endedBy = "eof"
    /\ count = 1
    /\ limit = 2
    /\ ret = <<0>>
    /\ out[Len(out)].kind = "completed"

\* ------------------------------------------------------------ helpers
\* the (index, data) pairs the reporter has printed, in order
RECURSIVE ChunksPrinted(_)
ChunksPrinted(log) ==
    IF log = <<>> THEN <<>>
    ELSE IF Head(log).kind = "chunk"
         THEN <<<<Head(log).idx, Head(log).data>>>> \o ChunksPrinted(Tail(log))
         ELSE ChunksPrinted(Tail(log))

HasEvent(kind) == \E i \in 1..Len(out) : out[i].kind = kind

\* what dump prints for a capture of these chunks that runs to completion:
\* each chunk, the messages of its feed if any, the flush result if any, and
\* the completion line
RECURSIVE CompletedOutput(_, _, _, _)
CompletedOutput(chunks, i, st, log) ==
    IF i > Len(chunks) THEN
        LET r == ParserFlush(st)
            m == [ascii |-> r.ascii, binary |-> r.binary]
        IN (IF m = NoMsgs THEN log ELSE Append(log, Event("flush", 0, <<>>, m)))
           \o <<Event("completed", 0, <<>>, NoMsgs)>>
    ELSE
        LET r == ParserFeed(st, chunks[i])
            m == [ascii |-> r.ascii, binary |-> r.binary]
            shown == Append(log, Event("chunk", i, chunks[i], NoMsgs))
        IN CompletedOutput(chunks, i + 1, r.st,
                           IF m = NoMsgs THEN shown
                           ELSE Append(shown, Event("messages", i, <<>>, m)))

\* the parser after these chunks were fed to it in order
RECURSIVE CompletedOutputState(_, _, _)
CompletedOutputState(chunks, i, st) ==
    IF i > Len(chunks) THEN st
    ELSE CompletedOutputState(chunks, i + 1, ParserFeed(st, chunks[i]).st)

\* --------------------------------------------------------------- C5
\* C5 as stated: in every reachable state the chunks passed to feed are
\* exactly the chunks recv has returned, in order, except possibly the one
\* chunk the consumer is rendering at that moment.
C5_Original ==
    \/ fed = recvd
    \/ /\ pc \in {"render", "feed"}
       /\ recvd = Append(fed, cur[2])

\* C5 amended: the chunks passed to feed are the chunks recv has returned, in
\* order, except possibly the last one, which is missing only while the
\* consumer is rendering it or after the rendering of it raised and ended
\* the session; nothing is fed twice or out of order.
C5_FedIsReceived ==
    \/ fed = recvd
    \/ /\ recvd = Append(fed, cur[2])
       /\ \/ pc \in {"render", "feed"}
          \/ pc \in {"except", "done"} /\ err = "consumer"

\* three chunks received and fed, the third completing a binary frame
C5_Witness ==
    /\ Len(fed) = 3
    /\ fed = recvd
    /\ fed[1] # fed[2]
    /\ pc = "report"
    /\ msgs.binary # <<>>

\* --------------------------------------------------------------- C6
\* C6 as stated: every session that ends, also one ended by an I/O error on
\* its connection, has called flush exactly once (a session that never got a
\* connection is left aside: the claim fails without it).
C6_Original == pc = "done" /\ err # "connect" => flushes = 1

\* C6 amended: a session whose receive loop was left because the limit was
\* reached or the peer closed calls flush exactly once, after the last feed
\* and with no feed after it, and its result, when not empty, is printed; a
\* session ended by an exception that reached dump's handler never calls
\* flush.
C6_FlushOnCompletion ==
    /\ [](flushes <= 1)
    /\ [](pc = "done" => (flushes = 1 <=> endedBy \in {"limit", "eof"}))
    /\ [](pc = "done" /\ err # "none" => flushes = 0 /\ ~HasEvent("flush"))
    /\ [](flushes = 1 => fed = recvd /\ parser = EmptyParser)
    /\ [][flushes = 1 => fed' = fed /\ flushes' = 1]_vars
    /\ [](pc = "done" /\ flushes = 1 /\ msgs # NoMsgs =>
            /\ Len(out) >= 2
            /\ out[Len(out) - 1] = Event("flush", 0, <<>>, msgs))
    /\ [](pc = "done" /\ flushes = 1 /\ msgs = NoMsgs => ~HasEvent("flush"))

\* a completed session whose flush delivered a truncated binary frame
C6_Witness ==
    /\ pc = "done"
    /\ flushes = 1
    /\ Len(fed) >= 1
    /\ Len(msgs.binary) = 1
    /\ msgs.binary[1].truncated
    /\ HasEvent("flush")

C8_DrainStep ==
    DrainAttempts' # DrainAttempts =>
        /\ pc = "after_loop" /\ pc' = "exit_with"
        /\ UNCHANGED <<limit, jwt, sock, count, cur, recvs, timeouts, recvd,
                       yielded, endedBy, err, parser, msgs, fed, flushes, out, ret>>

\* C8: a drain send, failing or not, changes nothing but the record of the
\* send; when it is attempted every chunk received has been printed and fed;
\* and after a failed one the parser is still flushed, the flush result
\* printed, the socket released and 0 returned.
C8_DrainFailureHarmless ==
    /\ [][C8_DrainStep]_vars
    /\ [](DrainAttempts = 1 =>
            /\ fed = recvd
            /\ ChunksPrinted(out) = yielded
            /\ Len(yielded) = count)
    /\ [](pc = "done" /\ DrainFailed =>
            /\ ret = <<0>>
            /\ flushes = 1
            /\ sock = "closed"
            /\ out[Len(out)].kind = "completed"
            /\ (msgs # NoMsgs => out[Len(out) - 1] = Event("flush", 0, <<>>, msgs)))

\* the drain send failed after two chunks and the flush result was printed
C8_Witness ==
    /\ pc = "done"
    /\ DrainFailed
    /\ Len(recvd) = 2
    /\ HasEvent("flush")
    /\ ret = <<0>>

\* --------------------------------------------------------------- C9
\* C9 as stated: a failed drain send shows in the output, which therefore
\* differs from the output of the same capture with a successful drain send.
C9_Original ==
    pc = "done" /\ DrainFailed => out # CompletedOutput(recvd, 1, EmptyParser, <<>>)

\* C9 amended: a failed drain send is not reported: the exception is
\* swallowed and the output of the session is exactly the output of the same
\* capture with a successful drain send.
C9_DrainFailureSilent ==
    /\ [][DrainAttempts' # DrainAttempts => out' = out]_vars
    /\ [](pc = "done" /\ DrainAttempts = 1 =>
            out = CompletedOutput(recvd, 1, EmptyParser, <<>>))

\* a finished session whose drain send failed after data was printed
C9_Witness ==
    /\ pc = "done"
    /\ DrainFailed
    /\ Len(out) >= 3

\* -------------------------------------------------------------- C10
\* C10: once the generator has finished or an exception has reached dump's
\* handler the socket is not open (it is closed, or was never opened when the
\* connect failed); on the limit path it is closed only after the drain
\* attempt; a closed socket is never used or reopened.
C10_Released ==
    /\ [](pc \in {"except", "flush", "flush_report", "done"} =>
            /\ sock # "open"
            /\ (sock = "none" <=> err = "connect"))
    /\ [](sock = "closed" /\ endedBy = "limit" => DrainAttempts = 1)
    /\ [][sock = "closed" =>
            /\ sock' = "closed"
            /\ sends' = sends
            /\ recvs' = recvs]_vars

\* the consumer raised on a yielded chunk and the session ended
C10_Witness ==
    /\ pc = "done"
    /\ err = "consumer"
    /\ sock = "closed"
    /\ count >= 1

\* -------------------------------------------------------------- C11
AuthSends == Len(SelectSeq(sends, LAMBDA s : s.cmd = "auth"))

ByteAlphabet == {NL, TAG, 0, 2, 97}

RECURSIVE SeqsUpTo(_, _)
SeqsUpTo(S, n) ==
    IF n = 0 THEN {<<>>}
    ELSE LET shorter == SeqsUpTo(S, n - 1)
         IN shorter \cup {Append(q, x) : q \in shorter, x \in S}

Streams == SeqsUpTo(ByteAlphabet, MaxStream)

RECURSIVE Flatten(_)
Flatten(chunks) ==
    IF chunks = <<>> THEN <<>> ELSE Head(chunks) \o Flatten(Tail(chunks))

PInit ==
    /\ cur \in Streams
    /\ pc = "p_feed"
    /\ limit = 0
    /\ jwt = FALSE
    /\ sock = "none"
    /\ count = 0
    /\ recvs = 0
    /\ timeouts = 0
    /\ recvd = <<>>
    /\ yielded = <<>>
    /\ sends = <<>>
    /\ endedBy = "none"
    /\ err = "none"
    /\ parser = EmptyParser
    /\ msgs = NoMsgs
    /\ fed = <<>>
    /\ flushes = 0
    /\ out = <<>>
    /\ ret = <<>>

\* parser.feed on the next n bytes of the stream
PFeed(n) ==
    /\ pc = "p_feed"
    /\ n \in 1..Len(cur)
    /\ LET chunk == SubSeq(cur, 1, n)
           r == ParserFeed(parser, chunk)
           m == [ascii |-> r.ascii, binary |-> r.binary]
       IN /\ parser' = r.st
          /\ msgs' = m
          /\ fed' = Append(fed, chunk)
          /\ out' = Append(out, Event("feed", Len(fed) + 1, chunk, m))
    /\ cur' = SubSeq(cur, n + 1, Len(cur))
    /\ UNCHANGED <<limit, jwt, pc, sock, count, recvs, timeouts, recvd, yielded,
                   sends, endedBy, err, flushes, ret>>

\* parser.flush, when no more input will be fed
PFlush ==
    /\ pc \in {"p_feed", "p_flushed"}
    /\ flushes < MaxFlushes
    /\ LET r == ParserFlush(parser)
           m == [ascii |-> r.ascii, binary |-> r.binary]
       IN /\ parser' = r.st
          /\ msgs' = m
          /\ out' = Append(out, Event("flush", flushes + 1, <<>>, m))
    /\ flushes' = flushes + 1
    /\ pc' = "p_flushed"
    /\ UNCHANGED <<limit, jwt, sock, count, cur, recvs, timeouts, recvd, yielded,
                   sends, endedBy, err, fed, ret>>

PNext ==
    \/ \E n \in 1..MaxStream : PFeed(n)
    \/ PFlush

ParserSpec == PInit /\ [][PNext]_vars

\* the messages of all calls of one kind ("feed" or "flush"), in order
RECURSIVE AsciiOf(_, _)
AsciiOf(log, kind) ==
    IF log = <<>> THEN <<>>
    ELSE (IF Head(log).kind = kind THEN Head(log).ascii ELSE <<>>)
         \o AsciiOf(Tail(log), kind)

RECURSIVE BinaryOf(_, _)
BinaryOf(log, kind) ==
    IF log = <<>> THEN <<>>
    ELSE (IF Head(log).kind = kind THEN Head(log).binary ELSE <<>>)
         \o BinaryOf(Tail(log), kind)

\* -------------------------------------------------------------- C12
\* C12: however the bytes fed so far were cut into chunks, the ASCII
\* messages of the feed calls, concatenated in order, and the binary
\* messages likewise, are those of one feed of all these bytes to a fresh
\* parser, and the parser is left in the same state.
C12_FragmentationInvariant ==
    LET whole == ParserFeed(EmptyParser, Flatten(fed)) IN
        /\ AsciiOf(out, "feed") = whole.ascii
        /\ BinaryOf(out, "feed") = whole.binary
        /\ (flushes = 0 => parser = whole.st)

\* three chunks, an ASCII line and a binary frame each completed by a later
\* chunk than the one that began it
C12_Witness ==
    /\ Len(fed) = 3
    /\ out[1].ascii = <<>> /\ out[1].binary = <<>>
    /\ AsciiOf(out, "feed") # <<>>
    /\ BinaryOf(out, "feed") # <<>>
    /\ flushes = 0

\* -------------------------------------------------------------- C13
\* the stream bytes a list of messages accounts for: payload and terminator
\* of an ASCII message, header, length byte and payload of a binary one
RECURSIVE AsciiBytes(_)
AsciiBytes(list) ==
    IF list = <<>> THEN 0 ELSE Len(Head(list).payload) + 1 + AsciiBytes(Tail(list))

RECURSIVE BinaryBytes(_)
BinaryBytes(list) ==
    IF list = <<>> THEN 0 ELSE 2 + Head(list).received_len + BinaryBytes(Tail(list))

\* C13: every BinaryMessage returned by feed is complete (truncated false,
\* received_len = declared_len = length of its payload) and its bytes were
\* all supplied: the bytes fed are exactly those of the messages emitted plus
\* those still held by the parser.  A frame still being collected is
\* emitted by no feed; flush emits it as one BinaryMessage with truncated
\* true and received_len the number of payload bytes held, possibly zero,
\* and emits no other binary message.
C13_TruncatedOnlyAtFlush ==
    /\ [](\A i \in 1..Len(BinaryOf(out, "feed")) :
            LET b == BinaryOf(out, "feed")[i] IN
                /\ ~b.truncated
                /\ b.received_len = b.declared_len
                /\ Len(b.payload) = b.declared_len)
    /\ [](flushes = 0 =>
            /\ (parser.mode = "binary" => Len(parser.payload) < parser.declared)
            /\ Len(Flatten(fed)) =
                    AsciiBytes(AsciiOf(out, "feed")) + BinaryBytes(BinaryOf(out, "feed"))
                    + Len(parser.buf)
                    + (IF parser.mode = "binary" THEN 2 + Len(parser.payload) ELSE 0))
    /\ [][flushes' # flushes =>
            msgs'.binary =
                IF parser.mode = "binary"
                THEN <<[header |-> parser.header,
                        declared_len |-> parser.declared,
                        received_len |-> Len(parser.payload),
                        truncated |-> TRUE,
                        payload |-> parser.payload]>>
                ELSE <<>>]_vars
    /\ [](\A i \in 1..Len(BinaryOf(out, "flush")) :
            LET b == BinaryOf(out, "flush")[i] IN
                /\ b.truncated
                /\ b.received_len < b.declared_len
                /\ Len(b.payload) = b.received_len)

\* a frame declared with 2 payload bytes, fed in two chunks, of which one
\* byte arrived: no feed emitted it and flush emitted it truncated
C13_Witness ==
    /\ flushes = 1
    /\ Len(fed) = 2
    /\ BinaryOf(out, "feed") = <<>>
    /\ msgs.binary # <<>>
    /\ msgs.binary[1].truncated
    /\ msgs.binary[1].declared_len = 2
    /\ msgs.binary[1].received_len = 1

\* -------------------------------------------------------------- C14
RECURSIVE CountNL(_)
CountNL(bytes) ==
    IF bytes = <<>> THEN 0
    ELSE (IF Head(bytes) = NL THEN 1 ELSE 0) + CountNL(Tail(bytes))

\* s \o <<NL>> occurs in bytes as a run of consecutive bytes
OccursTerminated(s, bytes) ==
    \E k \in 0..(Len(bytes) - Len(s) - 1) :
        /\ \A j \in 1..Len(s) : bytes[k + j] = s[j]
        /\ bytes[k + Len(s) + 1] = NL

\* C14: every AsciiMessage emitted is a run of bytes of the stream that
\* holds no terminator and is followed by one in the stream, so there are
\* never more of them than terminators fed; flush emits no AsciiMessage and
\* drops the bytes held in idle mode.
C14_NoUnterminatedAscii ==
    /\ [](LET lines == AsciiOf(out, "feed") IN
            /\ Len(lines) <= CountNL(Flatten(fed))
            /\ \A i \in 1..Len(lines) :
                  /\ CountNL(lines[i].payload) = 0
                  /\ OccursTerminated(lines[i].payload, Flatten(fed)))
    /\ [](AsciiOf(out, "flush") = <<>>)
    /\ [][flushes' # flushes /\ parser.mode = "idle" =>
            msgs' = NoMsgs /\ parser' = EmptyParser]_vars

\* one line emitted, then an unterminated tail dropped by flush
C14_Witness ==
    /\ flushes = 1
    /\ Flatten(fed) = <<97, NL, 97, 2>>
    /\ AsciiOf(out, "feed") = <<[payload |-> <<97>>]>>
    /\ msgs = NoMsgs
    /\ parser = EmptyParser

\* -------------------------------------------------------------- C15
\* C15: flush leaves the parser empty and idle, and a flush that follows a
\* flush returns two empty lists: a truncated frame is emitted once.
C15_SecondFlushEmpty ==
    /\ (flushes >= 1 => parser = EmptyParser)
    /\ (flushes >= 2 => msgs = NoMsgs)
    /\ Len(BinaryOf(out, "flush")) <= 1

\* two flushes, the first of which emitted a truncated frame
C15_Witness ==
    /\ flushes = 2
    /\ Len(fed) >= 2
    /\ Len(BinaryOf(out, "flush")) = 1
    /\ msgs = NoMsgs

\* -------------------------------------------------------------- C16
\* The program is sequential and each of its blocking calls returns within
\* the socket timeout, so every step of it is eventually taken; what a recv
\* returns is the peer's choice.  A recv that times out beyond MaxTimeouts
\* changes no variable: the session staying at the loop test for ever is the
\* loop retrying for ever.
ProgramStep ==
    \/ Connect
    \/ ConnectFail
    \/ Auth
    \/ AuthFail
    \/ LoopDone
    \/ DrainOk
    \/ DrainFail
    \/ NoDrain
    \/ Release
    \/ Render
    \/ Feed
    \/ Report
    \/ Except
    \/ Flush
    \/ FlushReport

\* a recv returns something other than a timeout
PeerResponds ==
    \/ \E c \in Chunks : RecvData(c)
    \/ RecvEOF
    \/ RecvError

LiveSpec == Init /\ [][Next]_vars /\ WF_vars(ProgramStep)

\* termination with no assumption on the peer: it does not hold
C16_AlwaysTerminates == <>(pc = "done")

\* C16: if the peer does not let the reads time out for ever, every session
\* ends, after at most limit counted reads; nothing but the peer ends the
\* receive loop before that: a timeout leaves the loop at its test with the
\* same count, whatever the number of timeouts before it, and while the loop
\* runs another timeout is possible.
C16_CooperativeTermination ==
    /\ (WF_vars(PeerResponds) => <>(pc = "done"))
    /\ [](count <= (IF limit > 0 THEN limit ELSE 0) /\ Len(recvd) = count)
    /\ [][timeouts' # timeouts => pc' = "loop" /\ count' = count /\ count' < limit]_vars
    /\ [](pc = "loop" /\ LoopTest /\ timeouts < MaxTimeouts => ENABLED RecvTimeout)

\* the loop still running after MaxTimeouts timeouts
C16_Witness ==
    /\ pc = "loop"
    /\ timeouts = MaxTimeouts
    /\ count >= 1
    /\ count < limit

\* -------------------------------------------------------------- C17
\* C17: on the limit path, when the drain command is sent every chunk
\* received, the limit-th included, has been printed and fed and the
\* messages of its feed printed, and the socket is still open; the socket is
\* closed only after the drain send; flush is called, and its result and the
\* completion line printed, only after the socket is closed.
C17_EndOfCaptureOrder ==
    /\ [][DrainAttempts' # DrainAttempts =>
            /\ endedBy = "limit"
            /\ sock = "open" /\ sock' = "open"
            /\ fed = recvd
            /\ ChunksPrinted(out) = yielded
            /\ Len(yielded) = count
            /\ (count >= 1 /\ msgs # NoMsgs =>
                    out[Len(out)] = Event("messages", count, <<>>, msgs))
            /\ flushes = 0]_vars
    /\ [][endedBy = "limit" /\ sock = "open" /\ sock' = "closed" =>
            DrainAttempts = 1 /\ flushes = 0 /\ flushes' = 0]_vars
    /\ [][flushes' # flushes \/ (HasEvent("completed")' /\ ~HasEvent("completed")) =>
            sock = "closed"]_vars
    /\ [](HasEvent("flush") \/ HasEvent("completed") =>
            sock = "closed" /\ flushes = 1)

\* limit 3 reached, the third chunk completing a message; drained, released,
\* flushed and the completion reported
C17_Witness ==
    /\ pc = "done"
    /\ limit = 3
    /\ count = 3
    /\ endedBy = "limit"
    /\ DrainAttempts = 1
    /\ \E i \in 1..Len(out) : out[i].kind = "messages" /\ out[i].idx = 3
    /\ out[Len(out)].kind = "completed"

\* -------------------------------------------------------------- C18
\* C18: with limit <= 0 no recv is ever issued and nothing is yielded or
\* fed; a session that got its connection (and sent its AUTH line, if any)
\* leaves the loop at once with count = 0 >= limit, sends the drain command
\* once, flushes the parser and returns 0, having printed the completion
\* line only.
C18_NonPositiveLimit ==
    limit <= 0 =>
        /\ recvs = 0 /\ timeouts = 0
        /\ count = 0
        /\ recvd = <<>> /\ yielded = <<>> /\ fed = <<>>
        /\ err \in {"none", "connect", "auth"}
        /\ endedBy \in {"none", "limit"}
        /\ (pc \notin {"start", "auth", "loop", "except", "done"} => endedBy = "limit")
        /\ (Finished /\ err = "none" => DrainAttempts = 1 /\ endedBy = "limit")
        /\ (err # "none" => sock # "open" /\ DrainAttempts = 0)
        /\ (pc = "done" /\ err = "none" =>
                /\ DrainAttempts = 1
                /\ flushes = 1
                /\ ret = <<0>>
                /\ out = <<Event("completed", 0, <<>>, NoMsgs)>>)

\* limit 0: AUTH and the drain command sent, no recv, 0 returned
C18_Witness ==
    /\ limit = 0
    /\ pc = "done"
    /\ recvs = 0
    /\ Len(sends) = 2
    /\ sends[2] = [cmd |-> "drain", ok |-> TRUE]
    /\ flushes = 1
    /\ ret = <<0>>

\* -------------------------------------------------------------- C19
\* a binary message with truncated set is somewhere in the output
TruncatedReported ==
    \E i \in 1..Len(out) : \E j \in 1..Len(out[i].binary) : out[i].binary[j].truncated

\* C19: when a recv raises an error other than a timeout, after k < limit
\* chunks, these k chunks have been printed and fed, in order, before the
\* handler runs; the drain command is not sent, the parser is not flushed,
\* so that a frame it is still collecting is never reported, the socket is
\* closed and dump returns 1 after printing the failure.
C19_FatalRecvError ==
    err = "recv" =>
        /\ count < limit
        /\ endedBy = "none"
        /\ Len(yielded) = count
        /\ fed = recvd
        /\ ChunksPrinted(out) = yielded
        /\ parser = CompletedOutputState(recvd, 1, EmptyParser)
        /\ DrainAttempts = 0
        /\ flushes = 0
        /\ ~HasEvent("flush") /\ ~HasEvent("completed") /\ ~TruncatedReported
        /\ sock = "closed"
        /\ (pc = "done" => ret = <<1>> /\ out[Len(out)].kind = "failed")

\* recv failed after two chunks, with a binary frame half collected
C19_Witness ==
    /\ pc = "done"
    /\ err = "recv"
    /\ count = 2
    /\ limit = 3
    /\ parser.mode = "binary"
    /\ ret = <<1>>

====
